---- MODULE Spec2Model ----
(***************************************************************************)
(* Model of the dataflow-graph wiring layer of src/pipeline/Node.cpp:      *)
(* ports (Node::Output, Node::Input), port groups (OutputMap, InputMap),   *)
(* connections, and message fan-out (Output::send / Output::trySend).      *)
(*                                                                         *)
(* The owning pipeline (link, unlink, getConnections, getNode, removal of  *)
(* a node) and the per-input message queue are collaborators whose code is *)
(* not part of Node.cpp; they are modelled from the specification text.    *)
(***************************************************************************)
EXTENDS Integers, Sequences, FiniteSets, TLC

VARIABLES
    connections,  \* pipeline -> list of Connection records (PipelineImpl's pool)
    registered,   \* set of nodes currently registered in their pipeline
    outputRefs,   \* node -> Node::outputRefs, entries [name, ref]
    inputRefs,    \* node -> Node::inputRefs, entries [name, ref]
    outputMapRefs,\* node -> Node::outputMapRefs, entries [name, ref]
    inputMapRefs, \* node -> Node::inputMapRefs, entries [name, ref]
    declared,     \* node -> the ports and groups passed to its set...Refs calls so far
    inputs,       \* singular Input members: member id -> Input record
    inputMaps,    \* InputMap id -> list of [key, port] entries, in insertion order
    outputMaps,   \* OutputMap id -> list of [key, port] entries, in insertion order
    lastSet,      \* input reference -> the value last passed to each policy setter
    sent,         \* number of messages handed to send / trySend so far
    result,       \* observation of the last completed API call
    snd           \* the running Output::send / Output::trySend call (its locals)

\* the registration tables of the nodes
tables == <<outputRefs, inputRefs, outputMapRefs, inputMapRefs, declared>>
\* the ports and their settings
ports == <<inputs, inputMaps, outputMaps, lastSet>>
\* the pipelines
graph == <<connections, registered>>

vars == <<graph, tables, ports, sent, result, snd>>

-----------------------------------------------------------------------------
(* Bounds of the model *)

\* largest number of connections registered at one time
MaxConns == 3
\* number of send / trySend calls in one behaviour (each sends a fresh message)
MaxSends == 2
\* largest value passed to setQueueSize
MaxQueueSize == 2

-----------------------------------------------------------------------------
(* The object universe: two pipelines, five nodes.  Node ids are unique     *)
(* within one pipeline only: a2 and b2 both have id 2.  Node c1 is the node *)
(* whose registration calls are exercised one by one.                       *)

Pipelines == {"A", "B"}
Nodes == {"a1", "a2", "a3", "b2", "c1"}
\* the node that registers its ports step by step
RegNode == "c1"
NullPipeline == "nullptr"
NullNode == "nullptr"

\* Node::parent (weak_ptr<PipelineImpl>) as given to Node::Node
nodeParent ==
    [n \in Nodes |-> IF n = "b2" THEN "B" ELSE "A"]

\* Node::id as given to Node::Node
nodeId ==
    [n \in Nodes |-> CASE n = "a1" -> 1 [] n = "a2" -> 2 [] n = "a3" -> 3 [] n = "b2" -> 2
                        [] n = "c1" -> 4]

\* std::optional / tl::optional: <<>> is nullopt, <<v>> holds v
None == <<>>
Some(v) == <<v>>

\* Node::Output: name, group and the back-reference to the owning node
Output(parent, group, name) ==
    [parent |-> parent, group |-> group, name |-> name]

\* Node::Input: name, group, owning node, the three optional overrides, the
\* node-type defaults they fall back to, and the queue of pending messages
Input(parent, group, name, defBlocking, defQueueSize, defWait) ==
    [parent |-> parent, group |-> group, name |-> name,
     blocking |-> None, queueSize |-> None, waitForMessage |-> None,
     defaultBlocking |-> defBlocking, defaultQueueSize |-> defQueueSize,
     defaultWaitForMessage |-> defWait, queue |-> <<>>]

\* the singular Output members of the nodes, by member id; c1.out and
\* c1.out2 are two members constructed with the same name
outputs ==
    [m \in {"a1.out", "a2.out", "b2.out", "c1.out", "c1.out2", "c1.aux"} |->
        CASE m = "a1.out" -> Output("a1", "", "out")
          [] m = "a2.out" -> Output("a2", "", "out")
          [] m = "b2.out" -> Output("b2", "", "out")
          [] m = "c1.out" -> Output("c1", "", "out")
          [] m = "c1.out2" -> Output("c1", "", "out")
          [] m = "c1.aux" -> Output("c1", "", "aux")]

\* the singular Input members of the nodes as constructed, by member id
InitialInputs ==
    [m \in {"a2.in", "a3.in", "b2.in", "c1.in"} |->
        CASE m = "a2.in" -> Input("a2", "", "in", FALSE, 1, FALSE)
          [] m = "a3.in" -> Input("a3", "", "in", FALSE, 1, TRUE)
          [] m = "b2.in" -> Input("b2", "", "in", FALSE, 1, FALSE)
          [] m = "c1.in" -> Input("c1", "", "in", FALSE, 1, FALSE)]

\* the port groups of the nodes: name, owning node and default template.
\* c1.u and c1.h are built by the constructor that takes only the default
\* port, which leaves the name of the group empty; c1.gi is an InputMap with
\* the name of the OutputMap c1.g.
NodeOutputMapIds == {"a1.outs"}
NodeInputMapIds == {"a2.ins"}
RegOutputMapIds == {"c1.g", "c1.u"}
RegInputMapIds == {"c1.h"}
OutputMapIds == NodeOutputMapIds \cup RegOutputMapIds
InputMapIds == NodeInputMapIds \cup RegInputMapIds \cup {"c1.gi"}

\* OutputMap::OutputMap(name, defaultOutput), OutputMap::OutputMap(defaultOutput)
outputMapName ==
    [m \in OutputMapIds |-> CASE m = "a1.outs" -> "outs" [] m = "c1.g" -> "g" [] m = "c1.u" -> ""]
defaultOutput ==
    [m \in OutputMapIds |-> IF m = "a1.outs" THEN Output("a1", "", "") ELSE Output("c1", "", "")]

\* InputMap::InputMap(name, defaultInput), InputMap::InputMap(defaultInput)
inputMapName ==
    [m \in InputMapIds |-> CASE m = "a2.ins" -> "ins" [] m = "c1.h" -> "" [] m = "c1.gi" -> "g"]
defaultInput ==
    [m \in InputMapIds |-> IF m = "a2.ins" THEN Input("a2", "", "", TRUE, 1, TRUE)
                                          ELSE Input("c1", "", "", FALSE, 1, FALSE)]

\* keys looked up in the port groups
Keys == {"in", "out"}

\* Node::Output::toString: fmt::format("{}", name) for an empty group,
\* fmt::format("{}[\"{}\"]", group, name) otherwise
OutputToString(out) ==
    IF out.group = "" THEN out.name ELSE out.group \o "[\"" \o out.name \o "\"]"

\* a rendering that leaves out the quotes around the name
InputToString_NoQuotes(in) ==
    IF in.group = "" THEN in.name ELSE in.group \o "[" \o in.name \o "]"

\* Node::Input::toString: fmt::format("{}", name) for an empty group,
\* fmt::format("{}[\"{}\"]", group, name) otherwise
InputToString(in) ==
    IF in.group = "" THEN in.name ELSE in.group \o "[\"" \o in.name \o "\"]"

-----------------------------------------------------------------------------
(* Port groups: an insertion-ordered list of [key, port] entries *)

\* std container count(key)
count(map, key) ==
    Cardinality({k \in 1..Len(map) : map[k].key = key})

\* std container at(key)
at(map, key) ==
    map[CHOOSE k \in 1..Len(map) : map[k].key = key].port

\* a lookup that stamps the key on the copy of the default but not the group
OutputMapLookup_NoGroup(m, map, key) ==
    IF count(map, key) = 0
    THEN Append(map, [key |-> key, port |-> [defaultOutput[m] EXCEPT !.name = key]])
    ELSE map

\* the list after OutputMap::operator[](key)
OutputMapLookup(m, map, key) ==
    IF count(map, key) = 0
    THEN Append(map, [key |-> key,
                      port |-> [defaultOutput[m] EXCEPT !.group = outputMapName[m],
                                                        !.name = key]])
    ELSE map

\* a lookup that stores a fresh copy of the default under the key each time
InputMapLookup_Overwrite(m, map, key) ==
    LET fresh == [key |-> key,
                  port |-> [defaultInput[m] EXCEPT !.group = inputMapName[m], !.name = key]]
    IN  IF count(map, key) = 0
        THEN Append(map, fresh)
        ELSE [k \in 1..Len(map) |-> IF map[k].key = key THEN fresh ELSE map[k]]

\* the list after InputMap::operator[](key)
InputMapLookup(m, map, key) ==
    IF count(map, key) = 0
    THEN Append(map, [key |-> key,
                      port |-> [defaultInput[m] EXCEPT !.group = inputMapName[m],
                                                       !.name = key]])
    ELSE map

-----------------------------------------------------------------------------
(* References (pointers) to ports: <<"", member id>> is a singular member   *)
(* of a node, <<map id, key>> is the port stored under key in a port group. *)

MemberRef(m) == <<"", m>>
SlotRef(m, key) == <<m, key>>

\* the Output a reference points to
outputAt(r) ==
    IF r[1] = "" THEN outputs[r[2]] ELSE at(outputMaps[r[1]], r[2])

\* the Input a reference points to
inputAt(r) ==
    IF r[1] = "" THEN inputs[r[2]] ELSE at(inputMaps[r[1]], r[2])

\* every Output that exists: the members and the materialized group ports
AllOutputRefs ==
    {MemberRef(m) : m \in DOMAIN outputs}
    \cup UNION {{SlotRef(m, outputMaps[m][k].key) : k \in 1..Len(outputMaps[m])} : m \in OutputMapIds}

\* every Input that exists: the members and the materialized group ports
AllInputRefs ==
    {MemberRef(m) : m \in DOMAIN inputs}
    \cup UNION {{SlotRef(m, inputMaps[m][k].key) : k \in 1..Len(inputMaps[m])} : m \in InputMapIds}

-----------------------------------------------------------------------------
(* Node: registration tables and port enumeration *)

\* table[name] = ref on a name-keyed table: replaces the entry of that name,
\* adds one when there is none
TableAssign(table, name, ref) ==
    IF \E k \in 1..Len(table) : table[k].name = name
    THEN [k \in 1..Len(table) |->
            IF table[k].name = name THEN [name |-> name, ref |-> ref] ELSE table[k]]
    ELSE Append(table, [name |-> name, ref |-> ref])

\* Node::setOutputRefs(Output*): outputRefs[outRef->name] = outRef
setOutputRefs(table, outRef, out) ==
    TableAssign(table, out.name, outRef)

\* Node::setInputRefs(Input*): inputRefs[inRef->name] = inRef
setInputRefs(table, inRef, in) ==
    TableAssign(table, in.name, inRef)

\* Node::setOutputMapRefs(OutputMap*): outputMapRefs[outMapRef->name] = outMapRef
setOutputMapRefs(table, outMapRef) ==
    TableAssign(table, outputMapName[outMapRef], outMapRef)

\* Node::setInputMapRefs(InputMap*): inputMapRefs[inMapRef->name] = inMapRef
setInputMapRefs(table, inMapRef) ==
    TableAssign(table, inputMapName[inMapRef], inMapRef)

\* the references to the ports stored in a port group, in the group's order
SlotsOf(m, map) ==
    [k \in 1..Len(map) |-> SlotRef(m, map[k].key)]

RECURSIVE MapPorts(_, _)
\* the ports of the registered groups, group after group
MapPorts(mapTable, maps) ==
    IF mapTable = <<>> THEN <<>>
    ELSE SlotsOf(Head(mapTable).ref, maps[Head(mapTable).ref]) \o MapPorts(Tail(mapTable), maps)

\* an enumeration that lists the ports of the groups before the members
getOutputRefs_GroupsFirst(n) ==
    MapPorts(outputMapRefs[n], outputMaps) \o [k \in 1..Len(outputRefs[n]) |-> outputRefs[n][k].ref]

\* Node::getOutputRefs: the registered members, then the ports of each group
getOutputRefs(n) ==
    [k \in 1..Len(outputRefs[n]) |-> outputRefs[n][k].ref] \o MapPorts(outputMapRefs[n], outputMaps)

\* Node::getInputRefs: the registered members, then the ports of each group
getInputRefs(n) ==
    [k \in 1..Len(inputRefs[n]) |-> inputRefs[n][k].ref] \o MapPorts(inputMapRefs[n], inputMaps)

\* the null pointer returned by a lookup that finds no port
NullRef == <<"nullptr", "nullptr">>

RECURSIVE ScanOutputs(_, _, _)
\* the loop of getOutputRef: the first reference whose port has this group
\* and name, nullptr at the end of the list
ScanOutputs(refs, group, name) ==
    IF refs = <<>> THEN NullRef
    ELSE IF outputAt(Head(refs)).group = group /\ outputAt(Head(refs)).name = name
         THEN Head(refs)
         ELSE ScanOutputs(Tail(refs), group, name)

RECURSIVE ScanInputs(_, _, _)
\* the loop of getInputRef
ScanInputs(refs, group, name) ==
    IF refs = <<>> THEN NullRef
    ELSE IF inputAt(Head(refs)).group = group /\ inputAt(Head(refs)).name = name
         THEN Head(refs)
         ELSE ScanInputs(Tail(refs), group, name)

\* Node::getOutputRef(group, name)
getOutputRef(n, group, name) ==
    ScanOutputs(getOutputRefs(n), group, name)

\* Node::getInputRef(group, name)
getInputRef(n, group, name) ==
    ScanInputs(getInputRefs(n), group, name)

RECURSIVE ScanOutputNames(_, _)
\* a scan that compares the name only
ScanOutputNames(refs, name) ==
    IF refs = <<>> THEN NullRef
    ELSE IF outputAt(Head(refs)).name = name THEN Head(refs)
         ELSE ScanOutputNames(Tail(refs), name)

\* a name-only lookup that accepts a port of any group
getOutputRefByName_AnyGroup(n, name) ==
    ScanOutputNames(getOutputRefs(n), name)

\* Node::getOutputRef(name)
getOutputRefByName(n, name) ==
    getOutputRef(n, "", name)

\* Node::getInputRef(name)
getInputRefByName(n, name) ==
    getInputRef(n, "", name)

-----------------------------------------------------------------------------
(* Connections *)

\* a constructor that takes the input's group from the output
Connection_GroupOfOutput(out, in) ==
    [outputId |-> nodeId[out.parent], outputName |-> out.name, outputGroup |-> out.group,
     inputId |-> nodeId[in.parent], inputName |-> in.name, inputGroup |-> out.group]

\* Node::Connection::Connection(out, in)
Connection(out, in) ==
    [outputId |-> nodeId[out.parent], outputName |-> out.name, outputGroup |-> out.group,
     inputId |-> nodeId[in.parent], inputName |-> in.name, inputGroup |-> in.group]

\* an equality that leaves out the input's group
ConnectionEq_NoInputGroup(lhs, rhs) ==
    /\ lhs.outputId = rhs.outputId
    /\ lhs.outputName = rhs.outputName
    /\ lhs.outputGroup = rhs.outputGroup
    /\ lhs.inputId = rhs.inputId
    /\ lhs.inputName = rhs.inputName

\* Node::Connection::operator==
ConnectionEq(lhs, rhs) ==
    /\ lhs.outputId = rhs.outputId
    /\ lhs.outputName = rhs.outputName
    /\ lhs.outputGroup = rhs.outputGroup
    /\ lhs.inputId = rhs.inputId
    /\ lhs.inputName = rhs.inputName
    /\ lhs.inputGroup = rhs.inputGroup

\* Node::getParentPipeline: the pipeline the node's parent pointer names
getParentPipeline(n) ==
    nodeParent[n]

\* weak_ptr::lock() on Node::parent
lock(n) ==
    nodeParent[n]

\* a same-pipeline test that compares the ids of the two owning nodes
isSamePipeline_NodeIds(out, in) ==
    nodeId[out.parent] = nodeId[in.parent]

\* Node::Output::isSamePipeline
isSamePipeline(out, in) ==
    LET outputPipeline == lock(out.parent)
    IN  IF outputPipeline # NullPipeline
        THEN outputPipeline = lock(in.parent)
        ELSE FALSE

\* a filter that compares the node id and the name but not the group
getConnections_NoGroup(out) ==
    LET allConnections == connections[nodeParent[out.parent]]
        mine(conn) == conn.outputId = nodeId[out.parent] /\ conn.outputName = out.name
    IN  SelectSeq(allConnections, mine)

\* Node::Output::getConnections: the pipeline's connections that start at out
getConnections(out) ==
    LET allConnections == connections[getParentPipeline(out.parent)]
        mine(conn) == /\ conn.outputId = nodeId[out.parent]
                      /\ conn.outputName = out.name
                      /\ conn.outputGroup = out.group
    IN  SelectSeq(allConnections, mine)

-----------------------------------------------------------------------------
(* The owning pipeline: the pool of connections and the node registry *)

\* no connection in any pipeline
NoConnections ==
    [p \in Pipelines |-> <<>>]

\* the observation before any call
NoObservation ==
    [op |-> "none", out |-> <<"", "">>, in |-> <<"", "">>, status |-> "ok",
     afterLink |-> FALSE, pre |-> NoConnections,
     existed |-> FALSE, arg |-> <<>>, msg |-> 0, ret |-> TRUE, attempts |-> <<>>]

\* the last completed call, as its caller sees it: the operation, its port
\* arguments and whether it raised an error.  A link also records the pools
\* before it; an unlink that directly follows the link of the same two ports
\* (afterLink) carries on the pools recorded by that link.
Observation(op, o, i, status) ==
    LET afterLink == /\ op = "unlink"
                     /\ result.op = "link" /\ result.status = "ok"
                     /\ result.out = o /\ result.in = i
    IN  [NoObservation EXCEPT
            !.op = op, !.out = o, !.in = i, !.status = status,
            !.afterLink = afterLink,
            !.pre = CASE op = "link" -> connections
                      [] afterLink -> result.pre
                      [] OTHER -> NoConnections]

\* the number of connections registered in all pipelines
TotalConnections ==
    Len(connections["A"]) + Len(connections["B"])

NoRef == <<"", "">>

\* PipelineImpl::link: the pool after link(out, in) of ports of one pipeline
PipelineLink(pool, out, in) ==
    Append(pool, Connection(out, in))

\* PipelineImpl::unlink: the pool without the connections equal to (out, in)
PipelineUnlink(pool, out, in) ==
    LET other(conn) == ~ConnectionEq(conn, Connection(out, in))
    IN  SelectSeq(pool, other)

\* the pool after the removal of node n: no connection refers to n any more
PipelinePrune(pool, n) ==
    LET keeps(conn) == conn.outputId # nodeId[n] /\ conn.inputId # nodeId[n]
    IN  SelectSeq(pool, keeps)

\* PipelineImpl::getNode: the registered node of that id, or nullptr
getNode(p, id) ==
    IF \E n \in registered : nodeParent[n] = p /\ nodeId[n] = id
    THEN CHOOSE n \in registered : nodeParent[n] = p /\ nodeId[n] = id
    ELSE NullNode

\* Node::Output::link(in): link of the output's pipeline; ports of different
\* pipelines are refused with an error and nothing changes
Link(o, i) ==
    LET out == outputAt(o)
        in == inputAt(i)
        p == getParentPipeline(out.parent)
    IN  /\ snd.pc = "idle"
        /\ out.parent \in registered /\ in.parent \in registered
        /\ IF isSamePipeline(out, in)
           THEN /\ TotalConnections < MaxConns
                /\ connections' = [connections EXCEPT ![p] = PipelineLink(@, out, in)]
                /\ result' = Observation("link", o, i, "ok")
           ELSE /\ UNCHANGED connections
                /\ result' = Observation("link", o, i, "error")
        /\ UNCHANGED <<registered, tables, ports, sent, snd>>

\* Node::Output::unlink(in): unlink of the output's pipeline; ports of
\* different pipelines are refused with an error, an absent connection is not
Unlink(o, i) ==
    LET out == outputAt(o)
        in == inputAt(i)
        p == getParentPipeline(out.parent)
    IN  /\ snd.pc = "idle"
        /\ out.parent \in registered /\ in.parent \in registered
        /\ IF isSamePipeline(out, in)
           THEN /\ connections' = [connections EXCEPT ![p] = PipelineUnlink(@, out, in)]
                /\ result' = Observation("unlink", o, i, "ok")
           ELSE /\ UNCHANGED connections
                /\ result' = Observation("unlink", o, i, "error")
        /\ UNCHANGED <<registered, tables, ports, sent, snd>>

\* removal of a node from its pipeline, with the connections that refer to it
RemoveNode(n) ==
    /\ n \in registered
    /\ registered' = registered \ {n}
    /\ connections' = [connections EXCEPT ![nodeParent[n]] = PipelinePrune(@, n)]
    /\ result' = Observation("remove", NoRef, NoRef, "ok")
    /\ UNCHANGED <<tables, ports, sent, snd>>

-----------------------------------------------------------------------------
(* The state after construction of the two pipelines and their nodes *)

\* the outputRefs table of node n after its constructor registered its members
ConstructedOutputRefs(n) ==
    CASE n = "a1" -> setOutputRefs(<<>>, MemberRef("a1.out"), outputs["a1.out"])
      [] n = "a2" -> setOutputRefs(<<>>, MemberRef("a2.out"), outputs["a2.out"])
      [] n = "b2" -> setOutputRefs(<<>>, MemberRef("b2.out"), outputs["b2.out"])
      [] OTHER -> <<>>

\* the inputRefs table of node n after its constructor registered its members
ConstructedInputRefs(n) ==
    CASE n = "a2" -> setInputRefs(<<>>, MemberRef("a2.in"), InitialInputs["a2.in"])
      [] n = "a3" -> setInputRefs(<<>>, MemberRef("a3.in"), InitialInputs["a3.in"])
      [] n = "b2" -> setInputRefs(<<>>, MemberRef("b2.in"), InitialInputs["b2.in"])
      [] OTHER -> <<>>

\* the outputMapRefs table of node n after its constructor registered its groups
ConstructedOutputMapRefs(n) ==
    IF n = "a1" THEN setOutputMapRefs(<<>>, "a1.outs") ELSE <<>>

\* the inputMapRefs table of node n after its constructor registered its groups
ConstructedInputMapRefs(n) ==
    IF n = "a2" THEN setInputMapRefs(<<>>, "a2.ins") ELSE <<>>

\* no send or trySend is running
IdleCall ==
    [pc |-> "idle", kind |-> "none", out |-> <<"", "">>, msg |-> 0, conns |-> <<>>,
     node |-> NullNode, inputs |-> <<>>, success |-> TRUE, attempts |-> <<>>]

\* the references an Input can have
PossibleInputRefs ==
    {MemberRef(m) : m \in DOMAIN InitialInputs} \cup (InputMapIds \X Keys)

\* no policy setter has been called
NeverSet ==
    [blocking |-> None, queueSize |-> None, waitForMessage |-> None]

\* what the set...Refs calls of the constructor of node n were given
ConstructedDeclared(n) ==
    {<<"output", ConstructedOutputRefs(n)[k].ref>> : k \in 1..Len(ConstructedOutputRefs(n))}
    \cup {<<"input", ConstructedInputRefs(n)[k].ref>> : k \in 1..Len(ConstructedInputRefs(n))}
    \cup {<<"outputMap", ConstructedOutputMapRefs(n)[k].ref>> :
                k \in 1..Len(ConstructedOutputMapRefs(n))}
    \cup {<<"inputMap", ConstructedInputMapRefs(n)[k].ref>> :
                k \in 1..Len(ConstructedInputMapRefs(n))}

InitNodes ==
    /\ registered = Nodes
    /\ declared = [n \in Nodes |-> ConstructedDeclared(n)]
    /\ outputRefs = [n \in Nodes |-> ConstructedOutputRefs(n)]
    /\ inputRefs = [n \in Nodes |-> ConstructedInputRefs(n)]
    /\ outputMapRefs = [n \in Nodes |-> ConstructedOutputMapRefs(n)]
    /\ inputMapRefs = [n \in Nodes |-> ConstructedInputMapRefs(n)]
    /\ inputs = InitialInputs
    /\ lastSet = [r \in PossibleInputRefs |-> NeverSet]
    /\ sent = 0

\* wiring: the graph is built on nodes whose group ports outs["out"] and
\* ins["in"] have been looked up
Init ==
    /\ InitNodes
    /\ connections = NoConnections
    /\ outputMaps = [m \in OutputMapIds |->
            IF m \in NodeOutputMapIds THEN OutputMapLookup(m, <<>>, "out") ELSE <<>>]
    /\ inputMaps = [m \in InputMapIds |->
            IF m \in NodeInputMapIds THEN InputMapLookup(m, <<>>, "in") ELSE <<>>]
    /\ result = NoObservation
    /\ snd = IdleCall

\* the ports of the nodes that are wired here
WiredOutputRefs == {o \in AllOutputRefs : outputAt(o).parent # RegNode}
WiredInputRefs == {i \in AllInputRefs : inputAt(i).parent # RegNode}

Next ==
    \/ \E o \in WiredOutputRefs, i \in WiredInputRefs : Link(o, i)
    \/ \E o \in WiredOutputRefs, i \in WiredInputRefs : Unlink(o, i)

Spec == Init /\ [][Next]_vars

-----------------------------------------------------------------------------
(* Properties of the wiring (Spec) *)

\* conn leads from output o to input i: each of its six fields is that of the
\* two ports
IsEdge(conn, o, i) ==
    /\ conn.outputId = nodeId[outputAt(o).parent]
    /\ conn.outputGroup = outputAt(o).group
    /\ conn.outputName = outputAt(o).name
    /\ conn.inputId = nodeId[inputAt(i).parent]
    /\ conn.inputGroup = inputAt(i).group
    /\ conn.inputName = inputAt(i).name

\* the pipeline instance that owns the node of an output / of an input
PipelineOfOutput(o) == nodeParent[outputAt(o).parent]
PipelineOfInput(i) == nodeParent[inputAt(i).parent]

\* how often conn occurs in a list of connections
Occurrences(list, conn) ==
    Cardinality({k \in 1..Len(list) : list[k] = conn})

\* C3: a link of an output of one pipeline to an input of another pipeline
\* raises an error and leaves the connection lists of all pipelines as they
\* were, whatever the ids of the two nodes.
C3_CrossPipelineLinkRejected ==
    [][(result'.op = "link" /\ PipelineOfOutput(result'.out) # PipelineOfInput(result'.in))
        => (result'.status = "error" /\ connections' = connections)]_vars

\* a cross-pipeline link between nodes of equal id was refused while both
\* pipelines held connections
C3_Witness ==
    /\ result.op = "link" /\ result.status = "error"
    /\ PipelineOfOutput(result.out) # PipelineOfInput(result.in)
    /\ nodeId[outputAt(result.out).parent] = nodeId[inputAt(result.in).parent]
    /\ connections["A"] # <<>> /\ connections["B"] # <<>>

\* C4 as stated: link(o, i) directly followed by unlink(o, i) leaves the
\* connection lists as they were before the link, also when an equal
\* connection was registered before.
C4_RoundTripAlways ==
    (result.op = "unlink" /\ result.afterLink) => connections = result.pre

\* C4: link(o, i) directly followed by unlink(o, i), for ports of one
\* pipeline with no connection from o to i registered before the link,
\* leaves the connection lists (so every getConnections()) as they were
\* before the link.
C4_RoundTripWhenNew ==
    (/\ result.op = "unlink" /\ result.afterLink
     /\ \A k \in 1..Len(result.pre[PipelineOfOutput(result.out)]) :
            ~IsEdge(result.pre[PipelineOfOutput(result.out)][k], result.out, result.in))
    => /\ connections = result.pre
       /\ \A o \in AllOutputRefs :
            getConnections(outputAt(o))
                = SelectSeq(result.pre[PipelineOfOutput(o)],
                            LAMBDA conn : \E i \in AllInputRefs : IsEdge(conn, o, i))

\* a round trip on a new edge was made on a pipeline that held other
\* connections
C4_Witness ==
    /\ result.op = "unlink" /\ result.afterLink
    /\ result.pre[PipelineOfOutput(result.out)] # <<>>
    /\ \A k \in 1..Len(result.pre[PipelineOfOutput(result.out)]) :
            ~IsEdge(result.pre[PipelineOfOutput(result.out)][k], result.out, result.in)

\* C5 as stated: unlink(o, i) of any two ports removes exactly the
\* connections equal in all six fields to the edge from o to i, keeps the rest,
\* and raises no error when there is none.
C5_UnlinkExactAnyPorts ==
    [][result'.op = "unlink" =>
        LET o == result'.out
            i == result'.in
            p == PipelineOfOutput(o)
        IN  /\ connections'[p] = SelectSeq(connections[p], LAMBDA conn : ~IsEdge(conn, o, i))
            /\ \A q \in Pipelines \ {p} : connections'[q] = connections[q]
            /\ (\A k \in 1..Len(connections[p]) : ~IsEdge(connections[p][k], o, i))
                => (result'.status = "ok" /\ connections' = connections)]_vars

\* C5: unlink(o, i) of ports of one pipeline removes exactly the connections
\* equal in all six fields to the edge from o to i and keeps every other
\* connection of every pipeline; with no such connection it raises no error
\* and changes nothing, and none is left after it.
C5_UnlinkExactSamePipeline ==
    [][(result'.op = "unlink" /\ PipelineOfOutput(result'.out) = PipelineOfInput(result'.in)) =>
        LET o == result'.out
            i == result'.in
            p == PipelineOfOutput(o)
        IN  /\ result'.status = "ok"
            /\ connections'[p] = SelectSeq(connections[p], LAMBDA conn : ~IsEdge(conn, o, i))
            /\ \A q \in Pipelines \ {p} : connections'[q] = connections[q]
            /\ (\A k \in 1..Len(connections[p]) : ~IsEdge(connections[p][k], o, i))
                => connections' = connections
            /\ \A k \in 1..Len(connections'[p]) : ~IsEdge(connections'[p][k], o, i)]_vars

\* an unlink removed the edge just linked and left other connections of that
\* output's pipeline in place
C5_Witness ==
    /\ result.op = "unlink" /\ result.status = "ok" /\ result.afterLink
    /\ Len(connections[PipelineOfOutput(result.out)]) >= 2

\* C6: getConnections() of an output returns the connections of its
\* pipeline's list whose output endpoint is (id of its node, its group, its
\* name), each as often as the list holds it, and no other.
C6_GetConnectionsExact ==
    \A o \in AllOutputRefs :
        LET out == outputAt(o)
            mine == getConnections(out)
            all == connections[nodeParent[out.parent]]
            isMine(conn) == /\ conn.outputId = nodeId[out.parent]
                            /\ conn.outputGroup = out.group
                            /\ conn.outputName = out.name
        IN  /\ \A k \in 1..Len(mine) : isMine(mine[k]) /\ Occurrences(all, mine[k]) > 0
            /\ \A k \in 1..Len(all) :
                    isMine(all[k]) => Occurrences(mine, all[k]) = Occurrences(all, all[k])

\* the list holds a connection of out, one of the equally named output of the
\* same node's group and one of the equally named output of another node
C6_Witness ==
    /\ Len(getConnections(outputAt(MemberRef("a1.out")))) = 1
    /\ Len(getConnections(outputAt(SlotRef("a1.outs", "out")))) = 1
    /\ Len(getConnections(outputAt(MemberRef("a2.out")))) = 1

-----------------------------------------------------------------------------
(* Node::Input: the delivery policy *)

\* optional::value_or
value_or(opt, default) ==
    IF opt # None THEN opt[1] ELSE default

\* Node::Input::setBlocking
setBlocking(in, blocking) ==
    [in EXCEPT !.blocking = Some(blocking)]

\* a getter that tests the held value where the code tests for a value
getBlocking_TestsValue(in) ==
    IF in.blocking # None /\ in.blocking[1] THEN in.blocking[1] ELSE in.defaultBlocking

\* Node::Input::getBlocking
getBlocking(in) ==
    IF in.blocking # None THEN in.blocking[1] ELSE in.defaultBlocking

\* Node::Input::setQueueSize
setQueueSize(in, size) ==
    [in EXCEPT !.queueSize = Some(size)]

\* Node::Input::getQueueSize
getQueueSize(in) ==
    IF in.queueSize # None THEN in.queueSize[1] ELSE in.defaultQueueSize

\* Node::Input::setWaitForMessage
setWaitForMessage(in, waitForMessage) ==
    [in EXCEPT !.waitForMessage = Some(waitForMessage)]

\* Node::Input::getWaitForMessage
getWaitForMessage(in) ==
    value_or(in.waitForMessage, in.defaultWaitForMessage)

\* a setter that stores its argument without negating it
setReusePreviousMessage_NoNegation(in, waitForMessage) ==
    [in EXCEPT !.waitForMessage = Some(waitForMessage)]

\* Node::Input::setReusePreviousMessage
setReusePreviousMessage(in, waitForMessage) ==
    [in EXCEPT !.waitForMessage = Some(~waitForMessage)]

\* Node::Input::getReusePreviousMessage
getReusePreviousMessage(in) ==
    ~value_or(in.waitForMessage, in.defaultWaitForMessage)

\* the write through an Input reference: the member, or the port stored in
\* its group, becomes in
StoreInput(r, in) ==
    IF r[1] = ""
    THEN /\ inputs' = [inputs EXCEPT ![r[2]] = in]
         /\ UNCHANGED inputMaps
    ELSE /\ inputMaps' = [inputMaps EXCEPT ![r[1]] =
                [k \in 1..Len(inputMaps[r[1]]) |->
                    IF inputMaps[r[1]][k].key = r[2]
                    THEN [key |-> r[2], port |-> in]
                    ELSE inputMaps[r[1]][k]]]
         /\ UNCHANGED inputs

\* the observation of a setter call on input r with argument v
SetterObservation(op, r, v) ==
    [Observation(op, NoRef, r, "ok") EXCEPT !.arg = Some(v)]

\* r.setBlocking(b)
SetBlocking(r, b) ==
    /\ snd.pc = "idle"
    /\ StoreInput(r, setBlocking(inputAt(r), b))
    /\ lastSet' = [lastSet EXCEPT ![r].blocking = Some(b)]
    /\ result' = SetterObservation("setBlocking", r, b)
    /\ UNCHANGED <<graph, tables, outputMaps, sent, snd>>

\* r.setQueueSize(size)
SetQueueSize(r, size) ==
    /\ snd.pc = "idle"
    /\ StoreInput(r, setQueueSize(inputAt(r), size))
    /\ lastSet' = [lastSet EXCEPT ![r].queueSize = Some(size)]
    /\ result' = SetterObservation("setQueueSize", r, size)
    /\ UNCHANGED <<graph, tables, outputMaps, sent, snd>>

\* r.setWaitForMessage(w)
SetWaitForMessage(r, w) ==
    /\ snd.pc = "idle"
    /\ StoreInput(r, setWaitForMessage(inputAt(r), w))
    /\ lastSet' = [lastSet EXCEPT ![r].waitForMessage = Some(w)]
    /\ result' = SetterObservation("setWaitForMessage", r, w)
    /\ UNCHANGED <<graph, tables, outputMaps, sent, snd>>

\* r.setReusePreviousMessage(w): a request for waitForMessage = not w
SetReusePreviousMessage(r, w) ==
    /\ snd.pc = "idle"
    /\ StoreInput(r, setReusePreviousMessage(inputAt(r), w))
    /\ lastSet' = [lastSet EXCEPT ![r].waitForMessage = Some(~w)]
    /\ result' = SetterObservation("setReusePreviousMessage", r, w)
    /\ UNCHANGED <<graph, tables, outputMaps, sent, snd>>

-----------------------------------------------------------------------------
(* Lookups in the port groups *)

\* m[key] on an OutputMap
LookupOutput(m, key) ==
    /\ snd.pc = "idle"
    /\ outputMaps' = [outputMaps EXCEPT ![m] = OutputMapLookup(m, @, key)]
    /\ result' = [Observation("lookupOutput", SlotRef(m, key), NoRef, "ok")
                    EXCEPT !.existed = \E k \in 1..Len(outputMaps[m]) : outputMaps[m][k].key = key]
    /\ UNCHANGED <<graph, tables, inputs, inputMaps, lastSet, sent, snd>>

\* m[key] on an InputMap
LookupInput(m, key) ==
    /\ snd.pc = "idle"
    /\ inputMaps' = [inputMaps EXCEPT ![m] = InputMapLookup(m, @, key)]
    /\ result' = [Observation("lookupInput", NoRef, SlotRef(m, key), "ok")
                    EXCEPT !.existed = \E k \in 1..Len(inputMaps[m]) : inputMaps[m][k].key = key]
    /\ UNCHANGED <<graph, tables, inputs, outputMaps, lastSet, sent, snd>>

-----------------------------------------------------------------------------
(* Ports and policies of one node (SpecNode): the port groups start empty,  *)
(* their ports are looked up and the policy setters are called on inputs.   *)

\* the inputs whose policy setters are called
SetterTargets ==
    {MemberRef("a2.in"), SlotRef("a2.ins", "in")}

\* the values passed to setQueueSize
QueueSizes == 1..MaxQueueSize

InitNode ==
    /\ InitNodes
    /\ connections = NoConnections
    /\ outputMaps = [m \in OutputMapIds |-> <<>>]
    /\ inputMaps = [m \in InputMapIds |-> <<>>]
    /\ result = NoObservation
    /\ snd = IdleCall

NextNode ==
    \/ \E m \in NodeOutputMapIds, key \in Keys : LookupOutput(m, key)
    \/ \E m \in NodeInputMapIds, key \in Keys : LookupInput(m, key)
    \/ \E r \in SetterTargets \cap AllInputRefs, b \in BOOLEAN : SetBlocking(r, b)
    \/ \E r \in SetterTargets \cap AllInputRefs, size \in QueueSizes : SetQueueSize(r, size)
    \/ \E r \in SetterTargets \cap AllInputRefs, w \in BOOLEAN : SetWaitForMessage(r, w)
    \/ \E r \in SetterTargets \cap AllInputRefs, w \in BOOLEAN : SetReusePreviousMessage(r, w)

SpecNode == InitNode /\ [][NextNode]_vars

-----------------------------------------------------------------------------
(* Properties of the ports of a node (SpecNode) *)

\* key is stored in the list of a port group
HasKey(map, key) ==
    \E k \in 1..Len(map) : map[k].key = key

\* the number of entries of a port group stored under key
Entries(map, key) ==
    Cardinality({k \in 1..Len(map) : map[k].key = key})

\* C8: a lookup of a key that a port group already holds returns the port
\* stored under it as it is, with the settings made on it, and leaves the
\* group as it was; after any lookup the group has one entry for the key.
C8_LookupKeepsPort ==
    [][/\ \A m \in InputMapIds, key \in Keys :
            (result'.op = "lookupInput" /\ result'.in = SlotRef(m, key)) =>
                /\ Entries(inputMaps'[m], key) = 1
                /\ HasKey(inputMaps[m], key) =>
                    /\ inputMaps' = inputMaps
                    /\ inputAt(SlotRef(m, key))' = inputAt(SlotRef(m, key))
       /\ \A m \in OutputMapIds, key \in Keys :
            (result'.op = "lookupOutput" /\ result'.out = SlotRef(m, key)) =>
                /\ Entries(outputMaps'[m], key) = 1
                /\ HasKey(outputMaps[m], key) =>
                    /\ outputMaps' = outputMaps
                    /\ outputAt(SlotRef(m, key))' = outputAt(SlotRef(m, key))]_vars

\* a key was looked up again after the three setters had been called on its
\* port, with the largest queue size
C8_Witness ==
    /\ result.op = "lookupInput" /\ result.existed
    /\ inputAt(result.in).queueSize = Some(MaxQueueSize)
    /\ inputAt(result.in).blocking # None
    /\ inputAt(result.in).waitForMessage # None
    /\ Len(inputMaps[result.in[1]]) = 2

\* C9: on every input getWaitForMessage() is the negation of
\* getReusePreviousMessage(), and setReusePreviousMessage(b) leaves the input
\* as setWaitForMessage(not b) would.
C9_WaitIsNotReuse ==
    /\ [](\A r \in AllInputRefs :
            getWaitForMessage(inputAt(r)) = ~getReusePreviousMessage(inputAt(r)))
    /\ [][\A r \in PossibleInputRefs, b \in BOOLEAN :
            (result'.op = "setReusePreviousMessage" /\ result'.in = r /\ result'.arg = Some(b)) =>
                /\ inputAt(r)' = setWaitForMessage(inputAt(r), ~b)
                /\ getReusePreviousMessage(inputAt(r))' = b
                /\ getWaitForMessage(inputAt(r))' = ~b]_vars

\* setReusePreviousMessage moved an input away from its default
C9_Witness ==
    /\ result.op = "setReusePreviousMessage"
    /\ getReusePreviousMessage(inputAt(result.in)) = result.arg[1]
    /\ getWaitForMessage(inputAt(result.in)) # inputAt(result.in).defaultWaitForMessage

\* the defaults an input was constructed with
DefaultsOf(r) ==
    IF r[1] = "" THEN InitialInputs[r[2]] ELSE defaultInput[r[1]]

\* C10: each of getBlocking(), getQueueSize() and getWaitForMessage() returns
\* the input's default while no setter of that dimension has been called, and
\* the value last requested by a setter of that dimension afterwards (also
\* one equal to the default); a setter leaves the getters of the other two
\* dimensions as they were.
C10_OverrideOrDefault ==
    /\ [](\A r \in AllInputRefs :
            /\ getBlocking(inputAt(r)) =
                    IF lastSet[r].blocking = None THEN DefaultsOf(r).defaultBlocking
                    ELSE lastSet[r].blocking[1]
            /\ getQueueSize(inputAt(r)) =
                    IF lastSet[r].queueSize = None THEN DefaultsOf(r).defaultQueueSize
                    ELSE lastSet[r].queueSize[1]
            /\ getWaitForMessage(inputAt(r)) =
                    IF lastSet[r].waitForMessage = None THEN DefaultsOf(r).defaultWaitForMessage
                    ELSE lastSet[r].waitForMessage[1])
    /\ [][\A r \in PossibleInputRefs :
            /\ (result'.op = "setBlocking" /\ result'.in = r) =>
                /\ Some(getBlocking(inputAt(r))') = result'.arg
                /\ getQueueSize(inputAt(r))' = getQueueSize(inputAt(r))
                /\ getWaitForMessage(inputAt(r))' = getWaitForMessage(inputAt(r))
            /\ (result'.op = "setQueueSize" /\ result'.in = r) =>
                /\ Some(getQueueSize(inputAt(r))') = result'.arg
                /\ getBlocking(inputAt(r))' = getBlocking(inputAt(r))
                /\ getWaitForMessage(inputAt(r))' = getWaitForMessage(inputAt(r))
            /\ (result'.op \in {"setWaitForMessage", "setReusePreviousMessage"} /\ result'.in = r) =>
                /\ getBlocking(inputAt(r))' = getBlocking(inputAt(r))
                /\ getQueueSize(inputAt(r))' = getQueueSize(inputAt(r))
            /\ (result'.op = "setWaitForMessage" /\ result'.in = r) =>
                Some(getWaitForMessage(inputAt(r))') = result'.arg]_vars

\* the three cases on one input: blocking set to its default value, queueSize
\* never set, waitForMessage set away from its default
C10_Witness ==
    \E r \in AllInputRefs :
        /\ lastSet[r].blocking = Some(DefaultsOf(r).defaultBlocking)
        /\ lastSet[r].queueSize = None
        /\ lastSet[r].waitForMessage = Some(~DefaultsOf(r).defaultWaitForMessage)

\* lookups in the groups of a1 and a2 and setBlocking on the ports of the
\* input group (SpecLookup)
NextLookup ==
    \/ \E m \in NodeOutputMapIds, key \in Keys : LookupOutput(m, key)
    \/ \E m \in NodeInputMapIds, key \in Keys : LookupInput(m, key)
    \/ \E r \in (NodeInputMapIds \X Keys) \cap AllInputRefs, b \in BOOLEAN : SetBlocking(r, b)

SpecLookup == InitNode /\ [][NextLookup]_vars

\* port is a copy of the default template with this group and this name
StampedCopy(port, template, group, name) ==
    /\ port.group = group
    /\ port.name = name
    /\ [port EXCEPT !.group = template.group, !.name = template.name] = template

\* the entries of a port group other than the one under key are the same in
\* both lists
OthersKept(before, after, key) ==
    \A k \in 1..Len(before) :
        before[k].key # key => /\ k <= Len(after)
                               /\ after[k] = before[k]

\* C17: a lookup of a key that a port group does not hold adds one port to
\* that group, a copy of the group's default port with the group's name as
\* group and the key as name, and leaves the ports under the other keys and
\* the other groups as they were; a lookup of a key the group holds adds
\* nothing.
C17_LookupAddsStampedCopy ==
    [][/\ \A m \in InputMapIds, key \in Keys :
            (result'.op = "lookupInput" /\ result'.in = SlotRef(m, key)) =>
                /\ HasKey(inputMaps[m], key) => inputMaps' = inputMaps
                /\ ~HasKey(inputMaps[m], key) =>
                    /\ Len(inputMaps'[m]) = Len(inputMaps[m]) + 1
                    /\ Entries(inputMaps'[m], key) = 1
                    /\ StampedCopy(at(inputMaps'[m], key), defaultInput[m], inputMapName[m], key)
                    /\ OthersKept(inputMaps[m], inputMaps'[m], key)
                    /\ \A other \in InputMapIds \ {m} : inputMaps'[other] = inputMaps[other]
       /\ \A m \in OutputMapIds, key \in Keys :
            (result'.op = "lookupOutput" /\ result'.out = SlotRef(m, key)) =>
                /\ HasKey(outputMaps[m], key) => outputMaps' = outputMaps
                /\ ~HasKey(outputMaps[m], key) =>
                    /\ Len(outputMaps'[m]) = Len(outputMaps[m]) + 1
                    /\ Entries(outputMaps'[m], key) = 1
                    /\ StampedCopy(at(outputMaps'[m], key), defaultOutput[m], outputMapName[m], key)
                    /\ OthersKept(outputMaps[m], outputMaps'[m], key)
                    /\ \A other \in OutputMapIds \ {m} : outputMaps'[other] = outputMaps[other]
      ]_vars

\* the key "out" has just been added to the input group ins, which already
\* held a port "in" with a blocking override, and the output group outs
\* holds a port as well
C17_Witness ==
    /\ result.op = "lookupInput"
    /\ result.in = SlotRef("a2.ins", "out")
    /\ ~result.existed
    /\ HasKey(inputMaps["a2.ins"], "in")
    /\ at(inputMaps["a2.ins"], "in").blocking # None
    /\ at(inputMaps["a2.ins"], "out").group = "ins"
    /\ Len(outputMaps["a1.outs"]) > 0

-----------------------------------------------------------------------------
(* The message queue of an input.  It holds at most getQueueSize() pending  *)
(* messages; what happens to a message that finds it full follows the       *)
(* input's getBlocking().                                                   *)

\* the queue has no room for another message
QueueFull(in) ==
    Len(in.queue) >= getQueueSize(in)

\* queue.trySend(msg): whether the message was taken
QueueTrySendOk(in) ==
    ~QueueFull(in)

\* queue.trySend(msg): the input afterwards; a full queue takes nothing
QueueTrySend(in, msg) ==
    IF QueueFull(in) THEN in ELSE [in EXCEPT !.queue = Append(@, msg)]

\* queue.send(msg) has to wait: the queue is full and the input is blocking
QueueSendWaits(in) ==
    QueueFull(in) /\ getBlocking(in)

\* queue.send(msg): the input afterwards; a full queue of a non-blocking
\* input drops its oldest messages to make room
QueueSend(in, msg) ==
    LET keep == getQueueSize(in) - 1
        n == Len(in.queue)
    IN  IF QueueFull(in)
        THEN [in EXCEPT !.queue = Append(SubSeq(@, n - keep + 1, n), msg)]
        ELSE [in EXCEPT !.queue = Append(@, msg)]

\* the consumer of input r takes the oldest pending message
QueuePop(in) ==
    [in EXCEPT !.queue = Tail(@)]

-----------------------------------------------------------------------------
(* Node::Output::send and Node::Output::trySend, statement by statement *)

\* a match on the input's name alone
CorrespondingInputs_NameOnly(node, conn) ==
    LET corresponds(r) == inputAt(r).name = conn.inputName
    IN  SelectSeq(getInputRefs(node), corresponds)

\* the inputs of the resolved node that correspond to a connection, in the
\* order of the node's enumeration (the inner loop of send / trySend)
CorrespondingInputs(node, conn) ==
    LET corresponds(r) == /\ inputAt(r).group = conn.inputGroup
                          /\ inputAt(r).name = conn.inputName
    IN  SelectSeq(getInputRefs(node), corresponds)

\* an accumulation that keeps the result of the last delivery only
Accumulate_LastOnly(success, ok) ==
    ok

\* success &= ok
Accumulate(success, ok) ==
    success /\ ok

\* a list back to front
Reverse(seq) ==
    [k \in 1..Len(seq) |-> seq[Len(seq) + 1 - k]]

\* a call that walks the connections of the output from the last to the first
Begin_LastConnectionFirst(o, kind) ==
    /\ snd.pc = "idle"
    /\ sent < MaxSends
    /\ outputAt(o).parent \in registered
    /\ sent' = sent + 1
    /\ snd' = [IdleCall EXCEPT !.pc = "loop", !.kind = kind, !.out = o, !.msg = sent + 1,
                               !.conns = Reverse(getConnections(outputAt(o)))]
    /\ result' = Observation("call", o, NoRef, "ok")
    /\ UNCHANGED <<graph, tables, ports>>

\* out.send(msg) / out.trySend(msg) is called with a fresh message: success
\* is set and the connections of the output are read; the call has not
\* returned yet
Begin(o, kind) ==
    /\ snd.pc = "idle"
    /\ sent < MaxSends
    /\ outputAt(o).parent \in registered
    /\ sent' = sent + 1
    /\ snd' = [IdleCall EXCEPT !.pc = "loop", !.kind = kind, !.out = o, !.msg = sent + 1,
                               !.conns = getConnections(outputAt(o))]
    /\ result' = Observation("call", o, NoRef, "ok")
    /\ UNCHANGED <<graph, tables, ports>>

\* the head of the outer loop for the next connection: the target node is
\* resolved and its inputs are enumerated.  With no node of that id getNode
\* returns nullptr and node->getInputRefs() is undefined behaviour: the call
\* may crash, or may find nothing to enumerate.
Resolve ==
    /\ snd.pc = "loop"
    /\ snd.conns # <<>>
    /\ LET conn == Head(snd.conns)
           node == getNode(getParentPipeline(outputAt(snd.out).parent), conn.inputId)
       IN  IF node = NullNode
           THEN \/ snd' = [snd EXCEPT !.pc = "crashed"]
                \/ snd' = [snd EXCEPT !.conns = Tail(@)]
           ELSE IF CorrespondingInputs(node, conn) = <<>>
                THEN snd' = [snd EXCEPT !.conns = Tail(@)]
                ELSE snd' = [snd EXCEPT !.pc = "deliver", !.node = node,
                                        !.inputs = CorrespondingInputs(node, conn)]
    /\ UNCHANGED <<graph, tables, ports, sent, result>>

\* what is left to do after the delivery into the head of snd.inputs
AfterDelivery(call) ==
    IF Tail(call.inputs) = <<>>
    THEN [call EXCEPT !.pc = "loop", !.node = NullNode, !.inputs = <<>>, !.conns = Tail(@)]
    ELSE [call EXCEPT !.inputs = Tail(@)]

\* a loop body in which trySend, too, hands the message to queue.send and
\* waits for room
Deliver_TrySendWaits ==
    /\ snd.pc = "deliver"
    /\ LET r == Head(snd.inputs)
           in == inputAt(r)
       IN  /\ ~QueueSendWaits(in)
           /\ StoreInput(r, QueueSend(in, snd.msg))
           /\ snd' = AfterDelivery([snd EXCEPT
                            !.attempts = Append(@, [in |-> r, ok |-> TRUE])])
    /\ UNCHANGED <<graph, tables, outputMaps, lastSet, sent, result>>

\* the body of the inner loop for a corresponding input:
\* input->queue.send(msg), which waits while the queue is full and blocking,
\* or success &= input->queue.trySend(msg)
Deliver ==
    /\ snd.pc = "deliver"
    /\ LET r == Head(snd.inputs)
           in == inputAt(r)
       IN  IF snd.kind = "send"
           THEN /\ ~QueueSendWaits(in)
                /\ StoreInput(r, QueueSend(in, snd.msg))
                /\ snd' = AfterDelivery([snd EXCEPT
                            !.attempts = Append(@, [in |-> r, ok |-> TRUE])])
           ELSE /\ StoreInput(r, QueueTrySend(in, snd.msg))
                /\ snd' = AfterDelivery([snd EXCEPT
                            !.success = Accumulate(@, QueueTrySendOk(in)),
                            !.attempts = Append(@, [in |-> r, ok |-> QueueTrySendOk(in)])])
    /\ UNCHANGED <<graph, tables, outputMaps, lastSet, sent, result>>

\* the call returns (trySend: success)
Return ==
    /\ snd.pc = "loop"
    /\ snd.conns = <<>>
    /\ result' = [Observation(snd.kind, snd.out, NoRef, "ok") EXCEPT
                    !.msg = snd.msg, !.ret = snd.success, !.attempts = snd.attempts]
    /\ snd' = IdleCall
    /\ UNCHANGED <<graph, tables, ports, sent>>

\* the running send waits for room in the queue of input r
WaitsOn(r) ==
    /\ snd.pc = "deliver" /\ snd.kind = "send"
    /\ Head(snd.inputs) = r
    /\ QueueSendWaits(inputAt(r))

\* the node that owns input r takes the oldest message out of its queue
Pop(r) ==
    /\ inputAt(r).queue # <<>>
    /\ StoreInput(r, QueuePop(inputAt(r)))
    /\ result' = Observation("pop", NoRef, r, "ok")
    /\ UNCHANGED <<graph, tables, outputMaps, lastSet, sent, snd>>

-----------------------------------------------------------------------------
(* Sending (SpecSend): calls are made one after another; while a send waits *)
(* for room in a queue, the consumer of that queue runs.                    *)

\* the outputs that send, and the edges that are linked and unlinked
SendOutputs ==
    {MemberRef("a1.out"), SlotRef("a1.outs", "out")}

SendInputs ==
    {MemberRef("a2.in"), SlotRef("a2.ins", "in"), MemberRef("a3.in")}

SendEdges ==
    ({MemberRef("a1.out")} \X SendInputs)
    \cup {<<SlotRef("a1.outs", "out"), MemberRef("a2.in")>>}

NextSend ==
    \/ \E e \in SendEdges : Link(e[1], e[2])
    \/ \E e \in SendEdges : Unlink(e[1], e[2])
    \/ \E o \in SendOutputs, kind \in {"send", "trySend"} : Begin(o, kind)
    \/ Resolve
    \/ Deliver
    \/ Return
    \/ \E r \in SendInputs : (snd.pc = "idle" \/ WaitsOn(r)) /\ Pop(r)

SpecSend == Init /\ [][NextSend]_vars

-----------------------------------------------------------------------------
(* Properties of sending (SpecSend) *)

\* the number of connections from output o to input i: none when the two
\* are not of one pipeline
EdgeCount(o, i) ==
    LET list == connections[PipelineOfOutput(o)]
    IN  IF PipelineOfInput(i) # PipelineOfOutput(o) THEN 0
        ELSE Cardinality({k \in 1..Len(list) : IsEdge(list[k], o, i)})

\* the number of deliveries into input i that the last call attempted, and
\* the number of those that were taken
AttemptsOn(i) ==
    Cardinality({k \in 1..Len(result.attempts) : result.attempts[k].in = i})
TakenBy(i) ==
    Cardinality({k \in 1..Len(result.attempts) :
                    result.attempts[k].in = i /\ result.attempts[k].ok})

\* how often message msg is pending in the queue of input i
Pending(i, msg) ==
    Cardinality({k \in 1..Len(inputAt(i).queue) : inputAt(i).queue[k] = msg})

\* C1: when trySend(msg) has returned, it has attempted one delivery per
\* connection of the output, whether or not earlier ones were taken; it
\* returned true exactly if each was taken (so true with no connection); every
\* delivery that was taken left msg in that input's queue, and a linked input
\* without msg is one whose queue is full.
C1_TrySendAllAndAnd ==
    result.op = "trySend" =>
        /\ \A i \in AllInputRefs : AttemptsOn(i) = EdgeCount(result.out, i)
        /\ result.ret = (\A k \in 1..Len(result.attempts) : result.attempts[k].ok)
        /\ (\A i \in AllInputRefs : EdgeCount(result.out, i) = 0) => result.ret
        /\ \A i \in AllInputRefs :
            /\ Pending(i, result.msg) = TakenBy(i)
            /\ (EdgeCount(result.out, i) > 0 /\ Pending(i, result.msg) = 0)
                    => Len(inputAt(i).queue) >= getQueueSize(inputAt(i))

\* trySend to three linked inputs returned false: the second refused the
\* message, the first and the third hold it
C1_Witness ==
    /\ result.op = "trySend" /\ ~result.ret
    /\ Len(result.attempts) = 3
    /\ result.attempts[1].ok /\ ~result.attempts[2].ok /\ result.attempts[3].ok
    /\ Cardinality({result.attempts[k].in : k \in 1..3}) = 3
    /\ Pending(result.attempts[1].in, result.msg) = 1
    /\ Pending(result.attempts[2].in, result.msg) = 0
    /\ Pending(result.attempts[3].in, result.msg) = 1

\* C2: when send(msg) has returned, it has delivered msg once per connection
\* that the output has in its pipeline's list at that time: every input
\* linked to the output holds msg, no other input does.
C2_SendReachesLinkedNow ==
    result.op = "send" =>
        \A i \in AllInputRefs :
            /\ AttemptsOn(i) = EdgeCount(result.out, i)
            /\ EdgeCount(result.out, i) > 0 => Pending(i, result.msg) > 0
            /\ EdgeCount(result.out, i) = 0 => Pending(i, result.msg) = 0

\* the second send of a1.out reached an input that does not hold the first
\* message, and not an input that holds the first message of a1.out but has
\* been unlinked since
C2_Witness ==
    /\ result.op = "send" /\ result.msg = 2 /\ result.out = MemberRef("a1.out")
    /\ \E i \in {SlotRef("a2.ins", "in"), MemberRef("a3.in")}, j \in AllInputRefs :
        /\ EdgeCount(result.out, i) = 0 /\ Pending(i, 1) = 1 /\ Pending(i, 2) = 0
        /\ EdgeCount(result.out, j) > 0 /\ Pending(j, 1) = 0 /\ Pending(j, 2) = 1

RECURSIVE Targets(_, _)
\* the inputs that the connections of output o in a list lead to, in the
\* order of the list
Targets(list, o) ==
    IF list = <<>> THEN <<>>
    ELSE LET hit == {i \in AllInputRefs : /\ PipelineOfInput(i) = PipelineOfOutput(o)
                                          /\ IsEdge(Head(list), o, i)}
         IN  (IF hit = {} THEN <<>> ELSE <<CHOOSE i \in hit : TRUE>>)
                \o Targets(Tail(list), o)

\* the inputs a call on output o has to deliver to, in the order of the
\* connection list of the pipeline
PlannedTargets(o) ==
    Targets(connections[PipelineOfOutput(o)], o)

\* C13: the deliveries of one send follow the order of the connections of
\* the output: at every moment of the call the inputs delivered to so far
\* are the first ones of that order, and no later input holds the message
\* yet, in particular while the call waits for room in a queue;
\* when the call has returned it has delivered in that order.
C13_DeliveriesInConnectionOrder ==
    /\ (snd.kind = "send" /\ snd.pc # "idle") =>
            LET plan == PlannedTargets(snd.out)
                done == Len(snd.attempts)
            IN  /\ done <= Len(plan)
                /\ \A k \in 1..done : snd.attempts[k].in = plan[k]
                /\ \A k \in (done + 1)..Len(plan) :
                    (\A j \in 1..done : plan[j] # plan[k]) => Pending(plan[k], snd.msg) = 0
    /\ result.op = "send" =>
            [k \in 1..Len(result.attempts) |-> result.attempts[k].in] = PlannedTargets(result.out)

\* a send to three inputs has delivered to the first and waits for room in
\* the queue of the second; the third does not hold the message
C13_Witness ==
    /\ snd.kind = "send"
    /\ Len(PlannedTargets(snd.out)) = 3
    /\ Cardinality({PlannedTargets(snd.out)[k] : k \in 1..3}) = 3
    /\ Len(snd.attempts) = 1
    /\ WaitsOn(PlannedTargets(snd.out)[2])
    /\ Pending(PlannedTargets(snd.out)[1], snd.msg) = 1
    /\ Pending(PlannedTargets(snd.out)[3], snd.msg) = 0

\* a step of the thread that runs the call
CallStep ==
    Resolve \/ Deliver \/ Return

\* the thread that runs a call keeps running: a step of the call that stays
\* possible is taken
SpecSendFair == SpecSend /\ WF_vars(CallStep)

\* the running call is at a delivery into an input whose queue holds
\* getQueueSize() messages or more and whose getBlocking() is true
AtFullBlockingInput ==
    /\ snd.pc = "deliver"
    /\ Len(inputAt(Head(snd.inputs)).queue) >= getQueueSize(inputAt(Head(snd.inputs)))
    /\ getBlocking(inputAt(Head(snd.inputs)))

\* C14: a running trySend can always take its next step and returns,
\* whatever the queues of its targets hold; a running send can take its next
\* step unless it is at a target whose queue is full and whose policy is
\* blocking, where it waits, and it goes on until it returns or waits at such
\* a target (so it continues once that queue has room).
C14_TrySendReturnsSendWaitsOnlyWhenFull ==
    /\ []((snd.kind = "trySend" /\ snd.pc # "idle") => ENABLED CallStep)
    /\ (snd.kind = "trySend" /\ snd.pc # "idle") ~> (snd.pc = "idle")
    /\ []((snd.kind = "send" /\ snd.pc # "idle") =>
            (ENABLED CallStep <=> ~AtFullBlockingInput))
    /\ (snd.kind = "send" /\ snd.pc # "idle") ~> (snd.pc = "idle" \/ AtFullBlockingInput)

\* a trySend is at a target whose queue is full and whose policy is
\* blocking, after a delivery to another target
C14_Witness ==
    /\ snd.kind = "trySend"
    /\ AtFullBlockingInput
    /\ Len(snd.attempts) > 0

-----------------------------------------------------------------------------
(* Sending while the graph changes (SpecConc): as SpecSend, and a node with *)
(* inputs may be removed from the pipeline at any moment, also between the  *)
(* statements of a running send or trySend.                                 *)

\* the nodes that are removed
Removable ==
    {"a2", "a3"}

NextConc ==
    \/ NextSend
    \/ \E n \in Removable : RemoveNode(n)

SpecConc == Init /\ [][NextConc]_vars

\* a running call is about to resolve a connection whose target node is no
\* longer registered
ResolvesRemovedNode ==
    /\ snd.pc = "loop" /\ snd.conns # <<>>
    /\ getNode(getParentPipeline(outputAt(snd.out).parent), Head(snd.conns).inputId) = NullNode

\* C7: a send that finds the target node of a connection no longer registered
\* skips that peer and does not fail: the call does not crash, and when send
\* has returned every input that is still linked to the output holds msg; the
\* node resolved for a delivery is referenced until the delivery is done.
C7_RemovedPeerSkipped ==
    /\ snd.pc # "crashed"
    /\ snd.pc = "deliver" => snd.node # NullNode
    /\ result.op = "send" =>
            \A i \in AllInputRefs :
                EdgeCount(result.out, i) > 0 => Pending(i, result.msg) > 0

-----------------------------------------------------------------------------
(* Sending to a node with a group without a name (SpecDeliver): node c1 has *)
(* registered its input "in" and its unnamed input group, whose port "in"   *)
(* has been looked up; a1.out is linked to a2.in and c1.in, sends, and the  *)
(* queue size of a2.in is set between the calls.                            *)

\* the edges that are linked and unlinked, the inputs that are consumed
DeliverEdges ==
    {MemberRef("a1.out")} \X {MemberRef("a2.in"), MemberRef("c1.in")}

DeliverInputs ==
    {MemberRef("a2.in"), MemberRef("c1.in"), SlotRef("c1.h", "in")}

InitDeliver ==
    /\ registered = Nodes
    /\ outputRefs = [n \in Nodes |-> ConstructedOutputRefs(n)]
    /\ inputRefs = [n \in Nodes |->
            IF n = RegNode THEN setInputRefs(<<>>, MemberRef("c1.in"), InitialInputs["c1.in"])
                           ELSE ConstructedInputRefs(n)]
    /\ outputMapRefs = [n \in Nodes |-> ConstructedOutputMapRefs(n)]
    /\ inputMapRefs = [n \in Nodes |->
            IF n = RegNode THEN setInputMapRefs(<<>>, "c1.h") ELSE ConstructedInputMapRefs(n)]
    /\ declared = [n \in Nodes |->
            IF n = RegNode THEN {<<"input", MemberRef("c1.in")>>, <<"inputMap", "c1.h">>}
                           ELSE ConstructedDeclared(n)]
    /\ inputs = InitialInputs
    /\ lastSet = [r \in PossibleInputRefs |-> NeverSet]
    /\ sent = 0
    /\ connections = NoConnections
    /\ outputMaps = [m \in OutputMapIds |->
            IF m \in NodeOutputMapIds THEN OutputMapLookup(m, <<>>, "out") ELSE <<>>]
    /\ inputMaps = [m \in InputMapIds |->
            IF m \in NodeInputMapIds \cup RegInputMapIds THEN InputMapLookup(m, <<>>, "in")
                                                         ELSE <<>>]
    /\ result = NoObservation
    /\ snd = IdleCall

NextDeliver ==
    \/ \E e \in DeliverEdges : Link(e[1], e[2])
    \/ \E e \in DeliverEdges : Unlink(e[1], e[2])
    \/ \E size \in QueueSizes : SetQueueSize(MemberRef("a2.in"), size)
    \/ \E kind \in {"send", "trySend"} : Begin(MemberRef("a1.out"), kind)
    \/ Resolve
    \/ Deliver
    \/ Return
    \/ \E r \in DeliverInputs : (snd.pc = "idle" \/ WaitsOn(r)) /\ Pop(r)

SpecDeliver == InitDeliver /\ [][NextDeliver]_vars

\* C11: whatever setQueueSize, send and trySend calls were made, no input
\* holds more pending messages than its getQueueSize(), and a delivery that
\* trySend reports as taken went into a queue with room for it.
C11_PendingWithinQueueSize ==
    /\ \A i \in AllInputRefs : Len(inputAt(i).queue) <= getQueueSize(inputAt(i))
    /\ result.op = "trySend" =>
            \A k \in 1..Len(result.attempts) :
                result.attempts[k].ok =>
                    Len(inputAt(result.attempts[k].in).queue)
                        <= getQueueSize(inputAt(result.attempts[k].in))

\* C20: a call that has returned made one delivery per connection of the
\* output, each into an input that a connection of the output leads to, and
\* an input holds the message as often as it was delivered to it.
C20_OneDeliveryPerConnection ==
    result.op \in {"send", "trySend"} =>
        /\ Len(result.attempts) = Len(getConnections(outputAt(result.out)))
        /\ \A i \in AllInputRefs :
                EdgeCount(result.out, i) = 0 => AttemptsOn(i) = 0 /\ Pending(i, result.msg) = 0

-----------------------------------------------------------------------------
(* Registration of the ports of one node (SpecReg): node c1 starts with     *)
(* empty tables; its members and groups are registered in any order, any    *)
(* number of times, and the ports of its groups are looked up.              *)

\* the singular members and the groups of the registering node
RegOutputs == {m \in DOMAIN outputs : outputs[m].parent = RegNode}
RegInputs == {m \in DOMAIN InitialInputs : InitialInputs[m].parent = RegNode}

\* Node::setOutputRefs(&member)
SetOutputRefs(n, m) ==
    /\ snd.pc = "idle"
    /\ outputRefs' = [outputRefs EXCEPT ![n] = setOutputRefs(@, MemberRef(m), outputs[m])]
    /\ declared' = [declared EXCEPT ![n] = @ \cup {<<"output", MemberRef(m)>>}]
    /\ result' = Observation("setOutputRefs", MemberRef(m), NoRef, "ok")
    /\ UNCHANGED <<graph, inputRefs, outputMapRefs, inputMapRefs, ports, sent, snd>>

\* Node::setInputRefs(&member)
SetInputRefs(n, m) ==
    /\ snd.pc = "idle"
    /\ inputRefs' = [inputRefs EXCEPT ![n] = setInputRefs(@, MemberRef(m), inputs[m])]
    /\ declared' = [declared EXCEPT ![n] = @ \cup {<<"input", MemberRef(m)>>}]
    /\ result' = Observation("setInputRefs", NoRef, MemberRef(m), "ok")
    /\ UNCHANGED <<graph, outputRefs, outputMapRefs, inputMapRefs, ports, sent, snd>>

\* Node::setOutputMapRefs(&group)
SetOutputMapRefs(n, m) ==
    /\ snd.pc = "idle"
    /\ outputMapRefs' = [outputMapRefs EXCEPT ![n] = setOutputMapRefs(@, m)]
    /\ declared' = [declared EXCEPT ![n] = @ \cup {<<"outputMap", m>>}]
    /\ result' = [Observation("setOutputMapRefs", NoRef, NoRef, "ok") EXCEPT !.arg = Some(m)]
    /\ UNCHANGED <<graph, outputRefs, inputRefs, inputMapRefs, ports, sent, snd>>

\* Node::setInputMapRefs(&group)
SetInputMapRefs(n, m) ==
    /\ snd.pc = "idle"
    /\ inputMapRefs' = [inputMapRefs EXCEPT ![n] = setInputMapRefs(@, m)]
    /\ declared' = [declared EXCEPT ![n] = @ \cup {<<"inputMap", m>>}]
    /\ result' = [Observation("setInputMapRefs", NoRef, NoRef, "ok") EXCEPT !.arg = Some(m)]
    /\ UNCHANGED <<graph, outputRefs, inputRefs, outputMapRefs, ports, sent, snd>>

\* the keys looked up in each group of the registering node: both keys in
\* the named group, the name of a singular member in the unnamed ones
RegKeys ==
    [m \in RegOutputMapIds \cup RegInputMapIds |->
        CASE m = "c1.g" -> Keys [] m = "c1.u" -> {"out"} [] m = "c1.h" -> {"in"}]

InitReg ==
    /\ InitNodes
    /\ connections = NoConnections
    /\ outputMaps = [m \in OutputMapIds |-> <<>>]
    /\ inputMaps = [m \in InputMapIds |-> <<>>]
    /\ result = NoObservation
    /\ snd = IdleCall

NextReg ==
    \/ \E m \in RegOutputs : SetOutputRefs(RegNode, m)
    \/ \E m \in RegInputs : SetInputRefs(RegNode, m)
    \/ \E m \in RegOutputMapIds : SetOutputMapRefs(RegNode, m)
    \/ \E m \in RegInputMapIds : SetInputMapRefs(RegNode, m)
    \/ \E m \in RegOutputMapIds : \E key \in RegKeys[m] : LookupOutput(m, key)
    \/ \E m \in RegInputMapIds : \E key \in RegKeys[m] : LookupInput(m, key)

SpecReg == InitReg /\ [][NextReg]_vars

-----------------------------------------------------------------------------
(* Properties of the enumeration of the ports of a node (SpecReg) *)

\* the number of times ref occurs in a list of references
Occurs(refs, ref) ==
    Cardinality({k \in 1..Len(refs) : refs[k] = ref})

\* the list holds every reference of the set once, and nothing else
OnceEach(refs, set) ==
    /\ \A r \in set : Occurs(refs, r) = 1
    /\ \A k \in 1..Len(refs) : refs[k] \in set

\* the singular ports are listed first, then the ports of the groups, group
\* after group in the order of the group table, and the ports of one group in
\* the order in which the group holds them
GroupRank(table, r) ==
    IF r[1] = "" THEN 0 ELSE CHOOSE g \in 1..Len(table) : table[g].ref = r[1]
SlotRank(maps, r) ==
    IF r[1] = "" THEN 0 ELSE CHOOSE t \in 1..Len(maps[r[1]]) : maps[r[1]][t].key = r[2]
InOrder(refs, table, maps) ==
    \A j, k \in 1..Len(refs) :
        j < k =>
            \/ GroupRank(table, refs[j]) < GroupRank(table, refs[k])
            \/ /\ GroupRank(table, refs[j]) = GroupRank(table, refs[k])
               /\ refs[j][1] = "" \/ SlotRank(maps, refs[j]) < SlotRank(maps, refs[k])

\* the ports node n was ever given: the members passed to setOutputRefs /
\* setInputRefs and the ports materialized in the groups passed to
\* setOutputMapRefs / setInputMapRefs
DeclaredOutputs(n) ==
    {r \in AllOutputRefs : \/ <<"output", r>> \in declared[n]
                           \/ r[1] # "" /\ <<"outputMap", r[1]>> \in declared[n]}
DeclaredInputs(n) ==
    {r \in AllInputRefs : \/ <<"input", r>> \in declared[n]
                          \/ r[1] # "" /\ <<"inputMap", r[1]>> \in declared[n]}

\* the ports node n holds now: the members in its tables and the ports
\* materialized in the groups in its group tables
HeldOutputs(n) ==
    {r \in AllOutputRefs : \/ \E k \in 1..Len(outputRefs[n]) : outputRefs[n][k].ref = r
                           \/ \E k \in 1..Len(outputMapRefs[n]) : outputMapRefs[n][k].ref = r[1]}
HeldInputs(n) ==
    {r \in AllInputRefs : \/ \E k \in 1..Len(inputRefs[n]) : inputRefs[n][k].ref = r
                          \/ \E k \in 1..Len(inputMapRefs[n]) : inputMapRefs[n][k].ref = r[1]}

\* the singular ports in an enumeration
Singular(refs) ==
    {refs[k] : k \in {j \in 1..Len(refs) : refs[j][1] = ""}}

LookupGroups == {"", "g", "outs", "ins"}
LookupNames == Keys \cup {"aux"}

\* the positions of a list of output / input references whose port has
\* this group and name
OutputHits(refs, group, name) ==
    {k \in 1..Len(refs) : outputAt(refs[k]).group = group /\ outputAt(refs[k]).name = name}
InputHits(refs, group, name) ==
    {k \in 1..Len(refs) : inputAt(refs[k]).group = group /\ inputAt(refs[k]).name = name}

\* ref is the reference at the smallest of these positions, or the null
\* pointer when there is none
FirstOf(refs, hits, ref) ==
    IF hits = {} THEN ref = NullRef
    ELSE \E k \in hits : ref = refs[k] /\ \A j \in hits : k <= j

\* C18: getOutputRef(group, name) / getInputRef(group, name) return the
\* first port of the enumeration with that group and name, and the null
\* pointer when there is none; the name-only forms return only ports with an
\* empty group, never a port of a named group.
C18_FirstMatchOrNull ==
    \A n \in Nodes, name \in LookupNames :
        /\ \A group \in LookupGroups :
            /\ FirstOf(getOutputRefs(n), OutputHits(getOutputRefs(n), group, name),
                       getOutputRef(n, group, name))
            /\ FirstOf(getInputRefs(n), InputHits(getInputRefs(n), group, name),
                       getInputRef(n, group, name))
        /\ FirstOf(getOutputRefs(n), OutputHits(getOutputRefs(n), "", name),
                   getOutputRefByName(n, name))
        /\ FirstOf(getInputRefs(n), InputHits(getInputRefs(n), "", name),
                   getInputRefByName(n, name))
        /\ getOutputRefByName(n, name) # NullRef =>
                outputAt(getOutputRefByName(n, name)).group = ""
        /\ getInputRefByName(n, name) # NullRef =>
                inputAt(getInputRefByName(n, name)).group = ""

\* node c1 lists two ports with an empty group and the name "out" and the
\* lookup returns the first; the port "in" of the group g is found by group
\* and name and not by name alone
C18_Witness ==
    /\ Cardinality(OutputHits(getOutputRefs(RegNode), "", "out")) = 2
    /\ getOutputRef(RegNode, "", "out") = MemberRef("c1.out2")
    /\ getOutputRef(RegNode, "g", "in") = SlotRef("c1.g", "in")
    /\ getOutputRefByName(RegNode, "in") = NullRef
    /\ Cardinality(InputHits(getInputRefs(RegNode), "", "in")) = 2
    /\ getInputRefByName(RegNode, "in") = MemberRef("c1.in")

\* C19: no two distinct ports in the enumeration of a node have the same
\* group and name, the ports of groups constructed without a name included.
C19_GroupNameUnique ==
    \A n \in Nodes, group \in LookupGroups, name \in LookupNames :
        /\ Cardinality(OutputHits(getOutputRefs(n), group, name)) <= 1
        /\ Cardinality(InputHits(getInputRefs(n), group, name)) <= 1

-----------------------------------------------------------------------------
(* Rendering of ports (SpecString): the ports of the groups of node c1 are  *)
(* looked up and toString is called on the ports of the node.               *)

\* the ports of node c1 that exist
StringOutputs == {o \in AllOutputRefs : outputAt(o).parent = RegNode}
StringInputs == {i \in AllInputRefs : inputAt(i).parent = RegNode}

\* o.toString()
ToStringOutput(o) ==
    /\ snd.pc = "idle"
    /\ result' = [Observation("toString", o, NoRef, "ok")
                    EXCEPT !.arg = Some(OutputToString(outputAt(o)))]
    /\ UNCHANGED <<graph, tables, ports, sent, snd>>

\* i.toString()
ToStringInput(i) ==
    /\ snd.pc = "idle"
    /\ result' = [Observation("toString", NoRef, i, "ok")
                    EXCEPT !.arg = Some(InputToString(inputAt(i)))]
    /\ UNCHANGED <<graph, tables, ports, sent, snd>>

NextString ==
    \/ \E m \in RegOutputMapIds, key \in Keys : LookupOutput(m, key)
    \/ \E m \in RegInputMapIds \cup {"c1.gi"}, key \in Keys : LookupInput(m, key)
    \/ \E o \in StringOutputs : ToStringOutput(o)
    \/ \E i \in StringInputs : ToStringInput(i)

SpecString == InitReg /\ [][NextString]_vars

\* str is the rendering of a port with this group and name: the name alone
\* for an empty group, else the group, [", the name, "]
Rendered(group, name, str) ==
    /\ group = "" => str = name
    /\ group # "" => /\ str = group \o "[\"" \o name \o "\"]"
                     /\ Len(str) = Len(group) + Len(name) + 4
    /\ (group = "g" /\ name = "in") => str = "g[\"in\"]"

\* C16: toString of an Output or Input with an empty group is its name, with
\* a group g and a name n it is g["n"]; an Output and an Input with the same
\* group and name render the same.
C16_ToStringFormat ==
    /\ (result.op = "toString" /\ result.out # NoRef) =>
            Rendered(outputAt(result.out).group, outputAt(result.out).name, result.arg[1])
    /\ (result.op = "toString" /\ result.in # NoRef) =>
            Rendered(inputAt(result.in).group, inputAt(result.in).name, result.arg[1])
    /\ \A o \in AllOutputRefs, i \in AllInputRefs :
            (outputAt(o).group = inputAt(i).group /\ outputAt(o).name = inputAt(i).name) =>
                OutputToString(outputAt(o)) = InputToString(inputAt(i))

\* toString was called on the input "in" of the group g and gave g["in"],
\* while an output "in" of a group g and an ungrouped output "in" exist
C16_Witness ==
    /\ result.op = "toString"
    /\ result.in = SlotRef("c1.gi", "in")
    /\ result.arg = Some("g[\"in\"]")
    /\ SlotRef("c1.g", "in") \in AllOutputRefs
    /\ SlotRef("c1.u", "in") \in AllOutputRefs

====
